---- MODULE Spec2Model ----
(***************************************************************************)
(* Model of legion's system.rs: SystemBuilder (the declaration builder),   *)
(* System (the runtime unit) and its Runnable lifecycle                    *)
(* (init / prepare / run_unsafe / dispose).                                *)
(*                                                                         *)
(* Collaborators that system.rs only calls (Permissions, Query, World,     *)
(* Resources, SubWorld, CommandBuffer) are modelled from spec.md.          *)
(***************************************************************************)
EXTENDS Integers, Sequences, FiniteSets, TLC

\* ---------------------------------------------------------------- bounds
MaxDecls == 3   \* longest builder declaration chain explored
MaxCalls == 2   \* init / dispose / run calls counted per unit
MaxEdits == 2   \* edits buffered per command buffer

\* ---------------------------------------------------------------- universe
Units == {"u1", "u2"}
Worlds == {"w1", "w2"}
ResourceTypeIds == {"R1", "R2"}
ComponentTypeIds == {"A", "B"}
Hooks == {"h1", "h2"}
None == "None"

\* The archetype layouts a world may hold (one archetype per layout).
Layouts == {{"A", "B"}, {"B"}}

\* ---------------------------------------------------------------- Permissions<T>
\* spec.md 3/4.1: two sets of keys; a key in writes is never in reads.
Permissions_default == [reads |-> {}, writes |-> {}]

Permissions_push_read(p, k) ==
    IF k \in p.writes THEN p ELSE [p EXCEPT !.reads = @ \cup {k}]

Permissions_push(p, k) ==
    [reads |-> p.reads \ {k}, writes |-> p.writes \cup {k}]

Permissions_add(p, q) ==
    [reads |-> (p.reads \cup q.reads) \ (p.writes \cup q.writes),
     writes |-> p.writes \cup q.writes]

Permissions_reads(p) == p.reads

Permissions_writes(p) == p.writes

\* ---------------------------------------------------------------- Query / View
\* A query is identified by its view: the components it reads and writes.
QAB == [reads |-> {"A"}, writes |-> {"B"}]

QB == [reads |-> {"B"}, writes |-> {}]

Queries == {QAB, QB}

\* V::requires_permissions()
requires_permissions(query) ==
    [reads |-> query.reads \ query.writes, writes |-> query.writes]

\* Query::find_archetypes(world): the indices (from 0) of the archetypes of
\* the world whose layout holds every component of the view.
find_archetypes(query, world) ==
    {i - 1 : i \in {j \in 1..Len(world) :
                       (query.reads \cup query.writes) \subseteq world[j]}}

\* World::id()
WorldId(w) == IF w = "w1" THEN "id1" ELSE "id2"

WorldIds == {WorldId(w) : w \in Worlds}

\* ---------------------------------------------------------------- ArchetypeAccess
ArchetypeAccess_All == [tag |-> "All", bitset |-> {}]

ArchetypeAccess_Some(bits) == [tag |-> "Some", bitset |-> bits]

\* ---------------------------------------------------------------- QuerySet
\* impl QuerySet for Query: insert every found archetype index into the bitset.
Query_filter_archetypes(query, world, bitset) ==
    bitset \cup find_archetypes(query, world)

\* Variant: only the first member of the tuple is evaluated.
QuerySet_filter_archetypes_head_only(queries, world, bitset) ==
    IF queries = << >> THEN bitset
    ELSE Query_filter_archetypes(Head(queries), world, bitset)

\* impl QuerySet for tuples: each member in turn, on the same bitset.
RECURSIVE QuerySet_filter_archetypes(_, _, _)
QuerySet_filter_archetypes(queries, world, bitset) ==
    IF queries = << >> THEN bitset
    ELSE QuerySet_filter_archetypes(Tail(queries), world,
             Query_filter_archetypes(Head(queries), world, bitset))

\* ---------------------------------------------------------------- SystemBuilder
SystemBuilder_new ==
    [queries |-> << >>,
     resources |-> << >>,
     resource_access |-> Permissions_default,
     component_access |-> Permissions_default,
     access_all_archetypes |-> FALSE,
     init_fn |-> None,
     dispose_fn |-> None]

\* Variant: the query is appended but its permissions are not folded in.
SystemBuilder_with_query_unfolded(b, query) == [b EXCEPT !.queries = Append(@, query)]

SystemBuilder_with_query(b, query) ==
    [b EXCEPT !.component_access = Permissions_add(@, requires_permissions(query)),
              !.queries = Append(@, query)]

\* Variant: the resource goes to the front of the bundle.
SystemBuilder_read_resource_prepending(b, T) ==
    [b EXCEPT !.resource_access = Permissions_push_read(@, T),
              !.resources = <<[mode |-> "Read", ty |-> T]>> \o @]

SystemBuilder_read_resource(b, T) ==
    [b EXCEPT !.resource_access = Permissions_push_read(@, T),
              !.resources = Append(@, [mode |-> "Read", ty |-> T])]

\* Variant: the write is recorded in the permissions as a read.
SystemBuilder_write_resource_as_read(b, T) ==
    [b EXCEPT !.resource_access = Permissions_push_read(@, T),
              !.resources = Append(@, [mode |-> "Write", ty |-> T])]

SystemBuilder_write_resource(b, T) ==
    [b EXCEPT !.resource_access = Permissions_push(@, T),
              !.resources = Append(@, [mode |-> "Write", ty |-> T])]

\* Variant: the permission is recorded but the all-archetypes flag is not set.
SystemBuilder_read_component_unflagged(b, T) ==
    [b EXCEPT !.component_access = Permissions_push_read(@, T)]

SystemBuilder_read_component(b, T) ==
    [b EXCEPT !.component_access = Permissions_push_read(@, T),
              !.access_all_archetypes = TRUE]

SystemBuilder_write_component(b, T) ==
    [b EXCEPT !.component_access = Permissions_push(@, T),
              !.access_all_archetypes = TRUE]

\* Variant: a hook already set is kept.
SystemBuilder_with_init_first_wins(b, init_fn) ==
    IF b.init_fn = None THEN [b EXCEPT !.init_fn = init_fn] ELSE b

SystemBuilder_with_init(b, init_fn) == [b EXCEPT !.init_fn = init_fn]

SystemBuilder_with_dispose(b, dispose_fn) == [b EXCEPT !.dispose_fn = dispose_fn]

\* HashMap::default(): a map with no key.
NoCommandBuffers == [id \in {} |-> None]

\* Variant: the unit is built with a buffer for the first world already in the map.
SystemBuilder_build_preallocating(b) ==
    [init_fn |-> b.init_fn,
     dispose_fn |-> b.dispose_fn,
     resources |-> b.resources,
     queries |-> b.queries,
     archetypes |-> IF b.access_all_archetypes
                    THEN ArchetypeAccess_All
                    ELSE ArchetypeAccess_Some({}),
     access |-> [resources |-> b.resource_access,
                 components |-> b.component_access],
     command_buffer |-> [id \in {"id1"} |-> [world |-> id, edits |-> << >>]]]

SystemBuilder_build(b) ==
    [init_fn |-> b.init_fn,
     dispose_fn |-> b.dispose_fn,
     resources |-> b.resources,
     queries |-> b.queries,
     archetypes |-> IF b.access_all_archetypes
                    THEN ArchetypeAccess_All
                    ELSE ArchetypeAccess_Some({}),
     access |-> [resources |-> b.resource_access,
                 components |-> b.component_access],
     command_buffer |-> NoCommandBuffers]

\* The value of the system variable of a unit that has not been built.
NoSystem == SystemBuilder_build(SystemBuilder_new)

\* ---------------------------------------------------------------- declarations
Decl(op, arg) == [op |-> op, arg |-> arg]

Decls ==
    {Decl("with_query", q) : q \in Queries}
    \cup {Decl(op, T) : op \in {"read_resource", "write_resource"}, T \in ResourceTypeIds}
    \cup {Decl(op, T) : op \in {"read_component", "write_component"}, T \in ComponentTypeIds}
    \cup {Decl(op, h) : op \in {"with_init", "with_dispose"}, h \in Hooks}

\* One builder call.
Apply(b, d) ==
    CASE d.op = "with_query" -> SystemBuilder_with_query(b, d.arg)
      [] d.op = "read_resource" -> SystemBuilder_read_resource(b, d.arg)
      [] d.op = "write_resource" -> SystemBuilder_write_resource(b, d.arg)
      [] d.op = "read_component" -> SystemBuilder_read_component(b, d.arg)
      [] d.op = "write_component" -> SystemBuilder_write_component(b, d.arg)
      [] d.op = "with_init" -> SystemBuilder_with_init(b, d.arg)
      [] d.op = "with_dispose" -> SystemBuilder_with_dispose(b, d.arg)

\* SystemBuilder::new(..) followed by the calls of a chain, in order.
RECURSIVE Chain(_)
Chain(ds) ==
    IF ds = << >> THEN SystemBuilder_new
    ELSE Apply(Chain(SubSeq(ds, 1, Len(ds) - 1)), ds[Len(ds)])

\* ---------------------------------------------------------------- Resources
\* The resource store keeps a borrow state per resource (spec.md 4.4 step 1, 6):
\* a count of shared handles and an exclusive flag.
FreeStore == [r \in ResourceTypeIds |-> [shared |-> 0, excl |-> FALSE]]

\* One handle of the bundle: Read<T> needs no exclusive holder, Write<T> no holder.
CanGrant(st, h) ==
    IF h.mode = "Read" THEN ~st[h.ty].excl
    ELSE ~st[h.ty].excl /\ st[h.ty].shared = 0

Grant(st, h) ==
    IF h.mode = "Read" THEN [st EXCEPT ![h.ty].shared = @ + 1]
    ELSE [st EXCEPT ![h.ty].excl = TRUE]

\* R::fetch_unchecked(resources): the handles of the bundle, in order; the
\* fetch fails (panics) at the first handle the store cannot grant.
RECURSIVE fetch_unchecked(_, _)
fetch_unchecked(bundle, st) ==
    IF bundle = << >> THEN [ok |-> TRUE, store |-> st]
    ELSE IF CanGrant(st, Head(bundle))
         THEN fetch_unchecked(Tail(bundle), Grant(st, Head(bundle)))
         ELSE [ok |-> FALSE, store |-> st]

\* Dropping the fetched handles.
RECURSIVE release(_, _)
release(bundle, st) ==
    IF bundle = << >> THEN st
    ELSE release(Tail(bundle),
                 IF Head(bundle).mode = "Read"
                 THEN [st EXCEPT ![Head(bundle).ty].shared = @ - 1]
                 ELSE [st EXCEPT ![Head(bundle).ty].excl = FALSE])

\* ---------------------------------------------------------------- SubWorld, CommandBuffer
\* ArchetypeAccess::bitset(): no restriction for All, the set for Some.
ArchetypeAccess_bitset(a) ==
    IF a.tag = "All" THEN [some |-> FALSE, bits |-> {}]
    ELSE [some |-> TRUE, bits |-> a.bitset]

\* SubWorld::new_unchecked(world, ComponentAccess::Allow(components), archetypes)
SubWorld_new_unchecked(w, components, bitset) ==
    [world |-> w, components |-> components, archetypes |-> bitset]

\* CommandBuffer::new(world): an empty buffer bound to the world.
CommandBuffer_new(w) == [world |-> WorldId(w), edits |-> << >>]

\* ---------------------------------------------------------------- System (Runnable)
System_reads(s) ==
    [resources |-> Permissions_reads(s.access.resources),
     components |-> Permissions_reads(s.access.components)]

System_writes(s) ==
    [resources |-> Permissions_writes(s.access.resources),
     components |-> Permissions_writes(s.access.components)]

\* Variant: the cache is cleared before the queries are evaluated.
System_prepare_clearing(s, world) ==
    IF s.archetypes.tag = "Some"
    THEN [s EXCEPT !.archetypes =
             ArchetypeAccess_Some(QuerySet_filter_archetypes(s.queries, world, {}))]
    ELSE s

\* Variant: the queries are evaluated whatever the archetype access is.
System_prepare_unconditional(s, world) ==
    [s EXCEPT !.archetypes =
        ArchetypeAccess_Some(
            QuerySet_filter_archetypes(s.queries, world, s.archetypes.bitset))]

System_prepare(s, world) ==
    IF s.archetypes.tag = "Some"
    THEN [s EXCEPT !.archetypes =
             ArchetypeAccess_Some(
                 QuerySet_filter_archetypes(s.queries, world, s.archetypes.bitset))]
    ELSE s

\* Variant: init also empties the archetype cache.
System_init_resetting_cache(s) ==
    [s EXCEPT !.init_fn = None,
              !.archetypes = IF @.tag = "Some" THEN ArchetypeAccess_Some({}) ELSE @]

\* Variant: the hook is called through a reference and stays in place.
System_init_keeping(s) == s

\* self.init_fn.take(): the System after the call.
System_init(s) == [s EXCEPT !.init_fn = None]

\* self.dispose_fn.take(): the System after the call.
\* Variant: dispose takes the init hook as well and empties the buffer map.
System_dispose_taking_all(s) ==
    [s EXCEPT !.dispose_fn = None, !.init_fn = None,
              !.command_buffer = NoCommandBuffers]

\* Variant: dispose also drops the unit's permissions.
System_dispose_dropping_access(s) ==
    [s EXCEPT !.dispose_fn = None,
              !.access = [resources |-> Permissions_default,
                          components |-> Permissions_default]]

System_dispose(s) == [s EXCEPT !.dispose_fn = None]

\* The queries prepare evaluates: all of them on a Some unit, none on an All unit.
System_prepare_resolves(s) == IF s.archetypes.tag = "Some" THEN Len(s.queries) ELSE 0

System_accesses_archetypes(s) == s.archetypes

\* self.command_buffer.get_mut(&world): whether a buffer is returned.
System_command_buffer_mut(s, id) == id \in DOMAIN s.command_buffer

\* Variant: one key for every world.
System_cmd_key_shared(w) == "id1"

\* The key run_unsafe looks the command buffer up under.
System_cmd_key(w) == WorldId(w)

\* Variant: every run gets a new buffer under the world's key.
System_cmd_entry_fresh(s, w) ==
    [s EXCEPT !.command_buffer =
        [id \in DOMAIN @ \cup {System_cmd_key(w)} |->
            IF id = System_cmd_key(w) THEN CommandBuffer_new(w) ELSE @[id]]]

\* self.command_buffer.entry(world.id()).or_insert_with(|| CommandBuffer::new(world))
System_cmd_entry(s, w) ==
    IF System_cmd_key(w) \in DOMAIN s.command_buffer THEN s
    ELSE [s EXCEPT !.command_buffer =
             [id \in DOMAIN @ \cup {System_cmd_key(w)} |->
                 IF id \in DOMAIN @ THEN @[id] ELSE CommandBuffer_new(w)]]

\* Variant: the view is built without the archetype restriction.
System_world_shim_all_archetypes(s, w) ==
    SubWorld_new_unchecked(w, s.access.components, [some |-> FALSE, bits |-> {}])

\* Variant: the view is built with access to every component.
System_world_shim_unrestricted(s, w) ==
    SubWorld_new_unchecked(w, [reads |-> {}, writes |-> ComponentTypeIds],
                           ArchetypeAccess_bitset(s.archetypes))

\* The world view run_unsafe hands to the user logic.
System_world_shim(s, w) ==
    SubWorld_new_unchecked(w, s.access.components, ArchetypeAccess_bitset(s.archetypes))

\* Variant: the result of the fetch is not looked at.
System_run_reaches_user_always(f) == TRUE

\* Whether run_unsafe reaches the call of the user logic: a failed fetch
\* panics, and the panic leaves run_unsafe at once.
System_run_reaches_user(f) == f.ok

\* SubWorld: whether the view lets the user logic touch component c of the
\* archetype with index a, reading or writing (spec.md 4.4 step 2).
SubWorld_allows(view, world, a, c, mode) ==
    /\ a + 1 \in 1..Len(world)
    /\ c \in world[a + 1]
    /\ (view.archetypes.some => a \in view.archetypes.bits)
    /\ IF mode = "Write" THEN c \in view.components.writes
       ELSE c \in view.components.reads \cup view.components.writes

\* The fetched bundle: whether a handle on resource r serves the access.
Bundle_allows(bundle, r, mode) ==
    \E i \in 1..Len(bundle) :
        bundle[i].ty = r /\ (mode = "Read" \/ bundle[i].mode = "Write")

\* ---------------------------------------------------------------- state
VARIABLES
    phase,     \* per unit: "absent", "building" (a SystemBuilder) or "built" (a System)
    decls,     \* per unit: the builder calls made so far, in order (history)
    builder,   \* per unit: the SystemBuilder
    system,    \* per unit: the System
    worlds,    \* per world: its archetypes, a sequence of layouts (index = position - 1)
    store,     \* the resource store's borrow state
    rt,        \* per unit: the run in flight (what run_unsafe passed to the user logic)
    log        \* per unit: counts of calls and of hook / user logic executions (history)

vars == <<phase, decls, builder, system, worlds, store, rt, log>>

NoView == SubWorld_new_unchecked(None, Permissions_default, [some |-> FALSE, bits |-> {}])

NoAccess == [kind |-> None, key |-> None, arch |-> 0, mode |-> None]

Idle ==
    [pc |-> "idle", world |-> None, cmd |-> None, view |-> NoView,
     resources |-> << >>, queries |-> << >>, acc |-> NoAccess]

NoLog ==
    [init_calls |-> 0, dispose_calls |-> 0, run_calls |-> 0,
     init_execs |-> << >>, dispose_execs |-> << >>,
     invocations |-> 0, fetch_faults |-> 0,
     prepared |-> None, resolved |-> 0,
     ran |-> {}, user_faults |-> 0, drains |-> 0, prepared_len |-> 0]

InitWorlds == [w \in Worlds |-> IF w = "w1" THEN << {"A", "B"} >> ELSE << {"B"} >>]

Init ==
    /\ phase = [u \in Units |-> IF u = "u1" THEN "building" ELSE "absent"]
    /\ decls = [u \in Units |-> << >>]
    /\ builder = [u \in Units |-> SystemBuilder_new]
    /\ system = [u \in Units |-> NoSystem]
    /\ worlds = InitWorlds
    /\ store = FreeStore
    /\ rt = [u \in Units |-> Idle]
    /\ log = [u \in Units |-> NoLog]

\* ---------------------------------------------------------------- builder actions
Declare(u, d) ==
    /\ phase[u] = "building"
    /\ Len(decls[u]) < MaxDecls
    /\ builder' = [builder EXCEPT ![u] = Apply(@, d)]
    /\ decls' = [decls EXCEPT ![u] = Append(@, d)]
    /\ UNCHANGED <<phase, system, worlds, store, rt, log>>

with_query(u, query) == Declare(u, Decl("with_query", query))

read_resource(u, T) == Declare(u, Decl("read_resource", T))

write_resource(u, T) == Declare(u, Decl("write_resource", T))

read_component(u, T) == Declare(u, Decl("read_component", T))

write_component(u, T) == Declare(u, Decl("write_component", T))

with_init(u, h) == Declare(u, Decl("with_init", h))

with_dispose(u, h) == Declare(u, Decl("with_dispose", h))

\* build consumes the builder.
build(u) ==
    /\ phase[u] = "building"
    /\ system' = [system EXCEPT ![u] = SystemBuilder_build(builder[u])]
    /\ builder' = [builder EXCEPT ![u] = SystemBuilder_new]
    /\ phase' = [phase EXCEPT ![u] = "built"]
    /\ UNCHANGED <<decls, worlds, store, rt, log>>

\* ---------------------------------------------------------------- lifecycle actions
\* A lifecycle method takes &mut self: no other call on the unit is in flight.
Callable(u) == phase[u] = "built" /\ rt[u].pc = "idle"

init(u) ==
    /\ Callable(u)
    /\ log[u].init_calls < MaxCalls
    /\ system' = [system EXCEPT ![u] = System_init(@)]
    /\ log' = [log EXCEPT ![u].init_calls = @ + 1,
                          ![u].init_execs =
                              IF system[u].init_fn # None
                              THEN Append(@, system[u].init_fn) ELSE @]
    /\ UNCHANGED <<phase, decls, builder, worlds, store, rt>>

dispose(u) ==
    /\ Callable(u)
    /\ log[u].dispose_calls < MaxCalls
    /\ system' = [system EXCEPT ![u] = System_dispose(@)]
    /\ log' = [log EXCEPT ![u].dispose_calls = @ + 1,
                          ![u].dispose_execs =
                              IF system[u].dispose_fn # None
                              THEN Append(@, system[u].dispose_fn) ELSE @]
    /\ UNCHANGED <<phase, decls, builder, worlds, store, rt>>

prepare(u, w) ==
    /\ Callable(u)
    /\ system' = [system EXCEPT ![u] = System_prepare(@, worlds[w])]
    /\ log' = [log EXCEPT ![u].prepared = w,
                          ![u].resolved = System_prepare_resolves(system[u]),
                          ![u].prepared_len = Len(worlds[w])]
    /\ UNCHANGED <<phase, decls, builder, worlds, store, rt>>

\* run_unsafe up to the call of the user logic: the fetch, the world view, the
\* command buffer of the world, then run_fn is entered. A failed fetch panics
\* out of run_unsafe before anything else happens.
run_unsafe(u, w) ==
    /\ Callable(u)
    /\ log[u].run_calls < MaxCalls
    /\ LET s == system[u]
           f == fetch_unchecked(s.resources, store)
       IN IF System_run_reaches_user(f)
          THEN /\ store' = f.store
               /\ system' = [system EXCEPT ![u] = System_cmd_entry(s, w)]
               /\ rt' = [rt EXCEPT ![u] =
                           [pc |-> "running",
                            world |-> w,
                            cmd |-> System_cmd_key(w),
                            view |-> System_world_shim(s, w),
                            resources |-> s.resources,
                            queries |-> s.queries,
                            acc |-> NoAccess]]
               /\ log' = [log EXCEPT ![u].run_calls = @ + 1,
                                     ![u].invocations = @ + 1,
                                     ![u].ran = @ \cup {WorldId(w)}]
          ELSE /\ log' = [log EXCEPT ![u].run_calls = @ + 1,
                                     ![u].fetch_faults = @ + 1]
               /\ UNCHANGED <<store, system, rt>>
    /\ UNCHANGED <<phase, decls, builder, worlds>>

\* The user logic records an edit into the command buffer it was passed.
user_record(u) ==
    /\ rt[u].pc = "running"
    /\ Len(system[u].command_buffer[rt[u].cmd].edits) < MaxEdits
    /\ system' = [system EXCEPT ![u].command_buffer[rt[u].cmd].edits =
                     Append(@, [world |-> WorldId(rt[u].world), run |-> log[u].run_calls])]
    /\ UNCHANGED <<phase, decls, builder, worlds, store, rt, log>>

\* The user logic touches a resource through the bundle it was passed.
user_access_resource(u, r, mode) ==
    /\ rt[u].pc = "running"
    /\ Bundle_allows(rt[u].resources, r, mode)
    /\ rt' = [rt EXCEPT ![u].acc =
                 [kind |-> "resource", key |-> r, arch |-> 0, mode |-> mode]]
    /\ UNCHANGED <<phase, decls, builder, system, worlds, store, log>>

\* The user logic touches a component of an archetype through the view it was passed.
user_access_component(u, a, c, mode) ==
    /\ rt[u].pc = "running"
    /\ SubWorld_allows(rt[u].view, worlds[rt[u].world], a, c, mode)
    /\ rt' = [rt EXCEPT ![u].acc =
                 [kind |-> "component", key |-> c, arch |-> a, mode |-> mode]]
    /\ UNCHANGED <<phase, decls, builder, system, worlds, store, log>>

\* Variant: run calls the user logic again after a fault.
System_run_fault_outcome_retry == "retry"

\* run_fn.run(..) is a plain call: a panic of the user logic unwinds through
\* run_unsafe, which has no catch_unwind and no loop around the call.
System_run_fault_outcome == "propagate"

\* The user logic faults. The unwind drops the fetched handles and the view;
\* the unit itself is not touched.
user_panic(u) ==
    /\ rt[u].pc = "running"
    /\ IF System_run_fault_outcome = "propagate"
       THEN /\ store' = release(rt[u].resources, store)
            /\ rt' = [rt EXCEPT ![u] = Idle]
            /\ log' = [log EXCEPT ![u].user_faults = @ + 1]
       ELSE /\ rt' = [rt EXCEPT ![u].acc = NoAccess]
            /\ log' = [log EXCEPT ![u].user_faults = @ + 1,
                                  ![u].invocations = @ + 1]
            /\ UNCHANGED store
    /\ UNCHANGED <<phase, decls, builder, system, worlds>>

\* The user logic asks the view for a component of an archetype the view does
\* not let it touch: the access is rejected.
user_access_denied(u, a, c, mode) ==
    /\ rt[u].pc = "running"
    /\ ~SubWorld_allows(rt[u].view, worlds[rt[u].world], a, c, mode)
    /\ rt' = [rt EXCEPT ![u].acc =
                 [kind |-> "denied", key |-> c, arch |-> a, mode |-> mode]]
    /\ UNCHANGED <<phase, decls, builder, system, worlds, store, log>>

\* The user logic returns: the fetched handles and the view are dropped.
run_return(u) ==
    /\ rt[u].pc = "running"
    /\ store' = release(rt[u].resources, store)
    /\ rt' = [rt EXCEPT ![u] = Idle]
    /\ UNCHANGED <<phase, decls, builder, system, worlds, log>>

\* ---------------------------------------------------------------- environment
\* The world gains an archetype (a structural change needs &mut World: no run
\* against that world is in flight).
insert_archetype(w, layout) ==
    /\ \A i \in 1..Len(worlds[w]) : worlds[w][i] # layout
    /\ \A u \in Units : rt[u].world # w
    /\ worlds' = [worlds EXCEPT ![w] = Append(@, layout)]
    /\ UNCHANGED <<phase, decls, builder, system, store, rt, log>>

\* The command-application step drains the buffer a unit holds for a world:
\* the edits are applied to that world (here: the world gains the archetype an
\* edit asks for, if it has none of that layout) and the buffer is left empty.
\* It needs &mut World and &mut System: no run is in flight.
flush(u, w, layout) ==
    /\ Callable(u)
    /\ \A v \in Units : rt[v].world # w
    /\ System_command_buffer_mut(system[u], WorldId(w))
    /\ system[u].command_buffer[WorldId(w)].edits # << >>
    /\ system' = [system EXCEPT ![u].command_buffer[WorldId(w)].edits = << >>]
    /\ worlds' = [worlds EXCEPT ![w] =
                     IF \E i \in 1..Len(@) : @[i] = layout THEN @ ELSE Append(@, layout)]
    /\ log' = [log EXCEPT ![u].drains = @ + 1]
    /\ UNCHANGED <<phase, decls, builder, store, rt>>

\* ---------------------------------------------------------------- specifications
\* Spec: one builder, every declaration chain up to MaxDecls, then build.
Next ==
    \/ \E u \in Units, q \in Queries : with_query(u, q)
    \/ \E u \in Units, T \in ResourceTypeIds : read_resource(u, T)
    \/ \E u \in Units, T \in ResourceTypeIds : write_resource(u, T)
    \/ \E u \in Units, T \in ComponentTypeIds : read_component(u, T)
    \/ \E u \in Units, T \in ComponentTypeIds : write_component(u, T)
    \/ \E u \in Units, h \in Hooks : with_init(u, h)
    \/ \E u \in Units, h \in Hooks : with_dispose(u, h)
    \/ \E u \in Units : build(u)

Spec == Init /\ [][Next]_vars

\* SpecRun: one unit built from a chain of RunChains, driven through any
\* sequence of lifecycle calls against two worlds that gain archetypes.
RunChains ==
    { << >>,
      <<Decl("read_resource", "R1"), Decl("with_query", QAB)>>,
      <<Decl("with_init", "h1"), Decl("with_dispose", "h2"),
        Decl("with_query", QAB), Decl("with_query", QB)>>,
      <<Decl("write_component", "A"), Decl("with_query", QAB)>>,
      <<Decl("with_query", QB), Decl("read_component", "A"), Decl("with_init", "h1")>>,
      <<Decl("with_init", "h1"), Decl("with_init", "h2"),
        Decl("write_resource", "R1"), Decl("with_query", QB)>>,
      <<Decl("read_resource", "R1"), Decl("write_resource", "R1"),
        Decl("with_dispose", "h1")>> }

InitRun ==
    /\ phase = [u \in Units |-> IF u = "u1" THEN "built" ELSE "absent"]
    /\ decls \in [Units -> RunChains]
    /\ decls["u2"] = << >>
    /\ builder = [u \in Units |-> SystemBuilder_new]
    /\ system = [u \in Units |-> SystemBuilder_build(Chain(decls[u]))]
    /\ worlds = InitWorlds
    /\ store = FreeStore
    /\ rt = [u \in Units |-> Idle]
    /\ log = [u \in Units |-> NoLog]

NextRun ==
    \/ \E u \in Units : init(u)
    \/ \E u \in Units : dispose(u)
    \/ \E u \in Units, w \in Worlds : prepare(u, w)
    \/ \E u \in Units, w \in Worlds : run_unsafe(u, w)
    \/ \E u \in Units : user_record(u)
    \/ \E u \in Units : run_return(u)
    \/ \E w \in Worlds, layout \in Layouts : insert_archetype(w, layout)

SpecRun == InitRun /\ [][NextRun]_vars

\* SpecConc: two units, each built from a chain of ConcChains, whose runs a
\* scheduler interleaves step by step on the shared worlds and resource store.
ConcChains ==
    { <<Decl("write_resource", "R1"), Decl("with_query", QAB)>>,
      <<Decl("read_resource", "R1"), Decl("with_query", QB)>>,
      <<Decl("read_resource", "R2"), Decl("read_component", "A")>>,
      <<Decl("write_resource", "R2"), Decl("write_component", "A")>> }

Modes == {"Read", "Write"}

ArchetypeIndices == 0..(Cardinality(Layouts) - 1)

InitConc ==
    /\ phase = [u \in Units |-> "built"]
    /\ decls \in [Units -> ConcChains]
    /\ builder = [u \in Units |-> SystemBuilder_new]
    /\ system = [u \in Units |-> SystemBuilder_build(Chain(decls[u]))]
    /\ worlds = InitWorlds
    /\ store = FreeStore
    /\ rt = [u \in Units |-> Idle]
    /\ log = [u \in Units |-> NoLog]

NextConc ==
    \/ \E u \in Units, w \in Worlds : prepare(u, w)
    \/ \E u \in Units, w \in Worlds : run_unsafe(u, w)
    \/ \E u \in Units, r \in ResourceTypeIds, m \in Modes : user_access_resource(u, r, m)
    \/ \E u \in Units, a \in ArchetypeIndices, c \in ComponentTypeIds, m \in Modes :
           user_access_component(u, a, c, m)
    \/ \E u \in Units : run_return(u)

SpecConc == InitConc /\ [][NextConc]_vars

\* SpecHooks: one builder, every declaration chain up to MaxDecls, build, then
\* init and dispose calls on the built unit.
NextHooks ==
    \/ Next
    \/ \E u \in Units : init(u)
    \/ \E u \in Units : dispose(u)

SpecHooks == Init /\ [][NextHooks]_vars

\* SpecView: one unit built from a chain of RunChains, prepared and run
\* against two worlds that gain archetypes; the user logic asks the view it is
\* passed for components, declared or not.
NextView ==
    \/ \E u \in Units, w \in Worlds : prepare(u, w)
    \/ \E u \in Units, w \in Worlds : run_unsafe(u, w)
    \/ \E u \in Units, a \in ArchetypeIndices, c \in ComponentTypeIds, m \in Modes :
           user_access_component(u, a, c, m)
    \/ \E u \in Units, a \in ArchetypeIndices, c \in ComponentTypeIds, m \in Modes :
           user_access_denied(u, a, c, m)
    \/ \E u \in Units : run_return(u)
    \/ \E w \in Worlds, layout \in Layouts : insert_archetype(w, layout)

SpecView == InitRun /\ [][NextView]_vars

\* SpecStage: one unit built from a chain of RunChains is run against two
\* worlds, records edits, and has its buffers drained between runs.
NextStage ==
    \/ \E u \in Units, w \in Worlds : run_unsafe(u, w)
    \/ \E u \in Units : user_record(u)
    \/ \E u \in Units : run_return(u)
    \/ \E u \in Units, w \in Worlds, layout \in Layouts : flush(u, w, layout)

SpecStage == InitRun /\ [][NextStage]_vars

\* SpecFault: one unit built from a chain of RunChains, with its hooks, whose
\* user logic may fault during a run.
NextFault ==
    \/ \E u \in Units : init(u)
    \/ \E u \in Units : dispose(u)
    \/ \E u \in Units, w \in Worlds : run_unsafe(u, w)
    \/ \E u \in Units : user_record(u)
    \/ \E u \in Units : user_panic(u)
    \/ \E u \in Units : run_return(u)

SpecFault == InitRun /\ [][NextFault]_vars

\* ================================================================ properties
\* What a declaration chain declares (read off the history, not the builder).
HasDecl(ds, op) == \E i \in 1..Len(ds) : ds[i].op = op

ArgsOf(ds, op) == {ds[i].arg : i \in {j \in 1..Len(ds) : ds[j].op = op}}

\* The archetype indices the queries match in a world.
Matched(queries, world) ==
    UNION {find_archetypes(queries[i], world) : i \in 1..Len(queries)}

Built == {u \in Units : phase[u] = "built"}

\* C1: a unit built with an init hook executes it exactly once, on the first
\* call of init, however many calls follow and whatever other lifecycle calls
\* are interleaved; the same for the dispose hook and dispose; a unit built
\* without the hook executes nothing.
C1_HookExactlyOnce ==
    \A u \in Built :
        /\ Len(log[u].init_execs) =
               IF HasDecl(decls[u], "with_init") /\ log[u].init_calls >= 1 THEN 1 ELSE 0
        /\ Len(log[u].dispose_execs) =
               IF HasDecl(decls[u], "with_dispose") /\ log[u].dispose_calls >= 1 THEN 1 ELSE 0

C1_Witness ==
    \E u \in Built :
        /\ log[u].init_calls >= 2 /\ Len(log[u].init_execs) = 1
        /\ log[u].dispose_calls >= 2 /\ Len(log[u].dispose_execs) = 1
        /\ log[u].invocations >= 1

\* C2 (as stated): after prepare(world) on a Some (Filtered) unit the cache is
\* exactly the set of archetype indices its queries match in that world.
C2_CacheIsExactlyMatched ==
    [][\A u \in Units, w \in Worlds :
          (prepare(u, w) /\ system[u].archetypes.tag = "Some")
              => system'[u].archetypes.bitset = Matched(system[u].queries, worlds[w])]_vars

\* C2 (amended): after prepare(world) on a Some (Filtered) unit the cache is
\* the cache from before the call together with the archetype indices its
\* queries match in that world; nothing cached earlier is dropped.
C2_CacheAccumulates ==
    [][\A u \in Units, w \in Worlds :
          (prepare(u, w) /\ system[u].archetypes.tag = "Some")
              => system'[u].archetypes.bitset =
                     system[u].archetypes.bitset \cup Matched(system[u].queries, worlds[w])]_vars

\* A prepare has acted and the cache holds an index no query matches in the
\* world it was prepared against.
C2_Witness ==
    \E u \in Built :
        /\ log[u].prepared # None
        /\ system[u].archetypes.tag = "Some"
        /\ system[u].archetypes.bitset \ Matched(system[u].queries, worlds[log[u].prepared]) # {}
        /\ Matched(system[u].queries, worlds[log[u].prepared]) # {}

\* C3: every command buffer of a unit is bound to the world whose id it is
\* keyed by, and every edit in it was recorded during a run against that
\* world; a run in flight holds the buffer of the world it runs against.
C3_BufferPerWorld ==
    \A u \in Built :
        /\ \A id \in DOMAIN system[u].command_buffer :
               /\ system[u].command_buffer[id].world = id
               /\ \A i \in 1..Len(system[u].command_buffer[id].edits) :
                      system[u].command_buffer[id].edits[i].world = id
        /\ rt[u].pc = "running" => rt[u].cmd = WorldId(rt[u].world)

C3_Witness ==
    \E u \in Built :
        /\ DOMAIN system[u].command_buffer = WorldIds
        /\ \A id \in WorldIds : Len(system[u].command_buffer[id].edits) >= 1

\* The keys a chain declares read / written, per keyspace.
DeclResReads(ds) == ArgsOf(ds, "read_resource")

DeclResWrites(ds) == ArgsOf(ds, "write_resource")

DeclCompReads(ds) ==
    ArgsOf(ds, "read_component") \cup UNION {q.reads : q \in ArgsOf(ds, "with_query")}

DeclCompWrites(ds) ==
    ArgsOf(ds, "write_component") \cup UNION {q.writes : q \in ArgsOf(ds, "with_query")}

IsResourceDecl(d) == d.op \in {"read_resource", "write_resource"}

IsQueryDecl(d) == d.op = "with_query"

\* The resource bundle and the query tuple a chain declares, in call order.
RECURSIVE DeclBundle(_)
DeclBundle(ds) ==
    IF ds = << >> THEN << >>
    ELSE IF IsResourceDecl(Head(ds))
         THEN <<[mode |-> IF Head(ds).op = "read_resource" THEN "Read" ELSE "Write",
                 ty |-> Head(ds).arg]>> \o DeclBundle(Tail(ds))
         ELSE DeclBundle(Tail(ds))

RECURSIVE DeclQueries(_)
DeclQueries(ds) ==
    IF ds = << >> THEN << >>
    ELSE IF IsQueryDecl(Head(ds)) THEN <<Head(ds).arg>> \o DeclQueries(Tail(ds))
         ELSE DeclQueries(Tail(ds))

\* C5: a key declared both read and written in one keyspace is reported by
\* the built unit in writes and not in reads, whichever call came first.
C5_WriteWins ==
    \A u \in Built :
        /\ \A k \in DeclResReads(decls[u]) \cap DeclResWrites(decls[u]) :
               /\ k \in System_writes(system[u]).resources
               /\ k \notin System_reads(system[u]).resources
        /\ \A k \in DeclCompReads(decls[u]) \cap DeclCompWrites(decls[u]) :
               /\ k \in System_writes(system[u]).components
               /\ k \notin System_reads(system[u]).components

\* A built unit whose chain writes a resource and later reads it.
C5_Witness ==
    \E u \in Built :
        /\ \E i, j \in 1..Len(decls[u]) :
               /\ i < j
               /\ decls[u][i] = Decl("write_resource", "R1")
               /\ decls[u][j] = Decl("read_resource", "R1")
        /\ System_writes(system[u]).resources = {"R1"}
        /\ System_reads(system[u]).resources = {}

\* C6: the read and write sets a built unit reports are the fold of its
\* declarations, with no other key: writes are the keys declared written,
\* reads the keys declared read and not written. In particular one
\* read_resource and one query reading A and writing B give resource reads
\* {R}, resource writes {}, component reads {A}, component writes {B}.
C6_ReportedIsFold ==
    \A u \in Built :
        /\ System_reads(system[u]).resources =
               DeclResReads(decls[u]) \ DeclResWrites(decls[u])
        /\ System_writes(system[u]).resources = DeclResWrites(decls[u])
        /\ System_reads(system[u]).components =
               DeclCompReads(decls[u]) \ DeclCompWrites(decls[u])
        /\ System_writes(system[u]).components = DeclCompWrites(decls[u])
        /\ decls[u] = <<Decl("read_resource", "R1"), Decl("with_query", QAB)>>
               => /\ System_reads(system[u]) = [resources |-> {"R1"}, components |-> {"A"}]
                  /\ System_writes(system[u]) = [resources |-> {}, components |-> {"B"}]

C6_Witness ==
    \E u \in Built :
        /\ decls[u] = <<Decl("read_resource", "R1"), Decl("with_query", QAB)>>
        /\ System_reads(system[u]) = [resources |-> {"R1"}, components |-> {"A"}]
        /\ System_writes(system[u]) = [resources |-> {}, components |-> {"B"}]

\* C7: a built unit reports All exactly when its chain holds a
\* read_component or write_component call, wherever in the chain; otherwise
\* it reports Some, with the empty set until the first prepare; no lifecycle
\* call changes the tag.
HasDirectComponentDecl(ds) == HasDecl(ds, "read_component") \/ HasDecl(ds, "write_component")

C7_AllIffDirectDecl ==
    \A u \in Built :
        /\ System_accesses_archetypes(system[u]).tag = "All"
               <=> HasDirectComponentDecl(decls[u])
        /\ ~HasDirectComponentDecl(decls[u])
               => /\ System_accesses_archetypes(system[u]).tag = "Some"
                  /\ log[u].prepared = None
                         => System_accesses_archetypes(system[u]).bitset = {}

\* An All unit whose direct declaration follows a query, after init, prepare,
\* a run and dispose.
C7_Witness ==
    \E u \in Built :
        /\ HasDecl(decls[u], "with_query") /\ decls[u][1].op = "with_query"
        /\ HasDecl(decls[u], "read_component")
        /\ System_accesses_archetypes(system[u]).tag = "All"
        /\ log[u].init_calls >= 1 /\ log[u].prepared # None
        /\ log[u].invocations >= 1 /\ log[u].dispose_calls >= 1

\* C8: prepare on an All unit changes nothing: the System (archetype access,
\* permissions, hooks, command buffers) is the same after as before, no query
\* is evaluated, and nothing else changes.
C8_PrepareAllNoop ==
    [][\A u \in Units, w \in Worlds :
          (prepare(u, w) /\ system[u].archetypes.tag = "All")
              => /\ system'[u] = system[u]
                 /\ log'[u].resolved = 0
                 /\ UNCHANGED <<phase, decls, builder, worlds, store, rt>>]_vars

\* An All unit with queries and a command buffer has been prepared.
C8_Witness ==
    \E u \in Built :
        /\ system[u].archetypes.tag = "All"
        /\ system[u].queries # << >>
        /\ DOMAIN system[u].command_buffer # {}
        /\ log[u].prepared # None

ConflictIn(readsA, writesA, readsB, writesB) ==
    \/ writesA \cap (readsB \cup writesB) # {}
    \/ writesB \cap (readsA \cup writesA) # {}

Conflict(u, v) ==
    \/ ConflictIn(System_reads(system[u]).resources, System_writes(system[u]).resources,
                  System_reads(system[v]).resources, System_writes(system[v]).resources)
    \/ ConflictIn(System_reads(system[u]).components, System_writes(system[u]).components,
                  System_reads(system[v]).components, System_writes(system[v]).components)

\* Two runs in flight touch the same resource, or the same component of the
\* same archetype of the same world, and one of them writes it.
Race(u, v) ==
    /\ rt[u].pc = "running" /\ rt[v].pc = "running"
    /\ rt[u].acc.kind # None
    /\ rt[u].acc.kind = rt[v].acc.kind
    /\ rt[u].acc.key = rt[v].acc.key
    /\ rt[u].acc.kind = "component"
           => rt[u].world = rt[v].world /\ rt[u].acc.arch = rt[v].acc.arch
    /\ rt[u].acc.mode = "Write" \/ rt[v].acc.mode = "Write"

\* C4: two units whose permission sets do not conflict never race, however
\* their runs are interleaved, and neither run is ever refused a resource
\* because of the other (a fetch fails only on a bundle that cannot be
\* granted even by a free store).
C4_NoConflictNoRace ==
    \A u, v \in Built :
        (u # v /\ ~Conflict(u, v))
            => /\ ~Race(u, v)
               /\ log[u].fetch_faults > 0
                      => ~fetch_unchecked(system[u].resources, FreeStore).ok

\* Two units without conflict run at once against one world, one writing a
\* component of an archetype and the other reading another component of it.
C4_Witness ==
    \E u, v \in Built :
        /\ u # v /\ ~Conflict(u, v)
        /\ rt[u].pc = "running" /\ rt[v].pc = "running"
        /\ rt[u].world = rt[v].world
        /\ rt[u].acc.kind = "component" /\ rt[u].acc.mode = "Write"
        /\ rt[v].acc.kind = "component" /\ rt[v].acc.arch = rt[u].acc.arch
        /\ system[u].resources # << >> /\ system[v].resources # << >>

\* No resource is held by a writer together with any other holder, and the
\* borrow state of the store is the one the runs in flight account for.
Holders(r, mode) ==
    UNION {{<<u, i>> : i \in {j \in 1..Len(rt[u].resources) :
                                 rt[u].resources[j] = [mode |-> mode, ty |-> r]}} :
           u \in {v \in Units : rt[v].pc = "running"}}

NoAliasing ==
    \A r \in ResourceTypeIds :
        /\ Cardinality(Holders(r, "Write")) <= 1
        /\ Holders(r, "Write") # {} => Holders(r, "Read") = {}
        /\ store[r].excl <=> Holders(r, "Write") # {}
        /\ store[r].shared = Cardinality(Holders(r, "Read"))

\* C10: a call of run whose declared resources the store cannot grant in
\* their declared modes ends in a fault without entering the user logic and
\* without touching the unit or the store; a call the store can serve enters
\* the user logic holding handles that alias no conflicting holder.
C10_FetchFaultAborts ==
    [][\A u \in Units, w \in Worlds :
          run_unsafe(u, w) =>
              IF fetch_unchecked(system[u].resources, store).ok
              THEN /\ rt'[u].pc = "running"
                   /\ log'[u].invocations = log[u].invocations + 1
                   /\ NoAliasing'
              ELSE /\ log'[u].fetch_faults = log[u].fetch_faults + 1
                   /\ log'[u].invocations = log[u].invocations
                   /\ UNCHANGED <<rt, system, store>>]_vars

\* A run was refused because the other unit, in a run of its own, holds a
\* resource in a conflicting mode; the user logic of the refused unit never ran.
C10_Witness ==
    \E u, v \in Built :
        /\ u # v
        /\ rt[v].pc = "running" /\ rt[u].pc = "idle"
        /\ log[u].fetch_faults >= 1 /\ log[u].invocations = 0
        /\ ~fetch_unchecked(system[u].resources, store).ok
        /\ fetch_unchecked(system[u].resources, FreeStore).ok

\* C11: the view passed to the user logic lets it touch a component of an
\* archetype only if the component is declared (read or written; written,
\* for a write) and, on a Some (Filtered) unit, the archetype is in the
\* cached set; every other access asked of the view is rejected.
C11_ViewRestricted ==
    \A u \in Built :
        rt[u].pc = "running" =>
            /\ \A a \in ArchetypeIndices, c \in ComponentTypeIds, m \in Modes :
                   SubWorld_allows(rt[u].view, worlds[rt[u].world], a, c, m)
                       => /\ c \in DeclCompReads(decls[u]) \cup DeclCompWrites(decls[u])
                          /\ m = "Write" => c \in DeclCompWrites(decls[u])
                          /\ system[u].archetypes.tag = "Some"
                                 => a \in system[u].archetypes.bitset
            /\ rt[u].acc.kind = "component"
                   => /\ rt[u].acc.key \in
                             DeclCompReads(decls[u]) \cup DeclCompWrites(decls[u])
                      /\ rt[u].acc.mode = "Write"
                             => rt[u].acc.key \in DeclCompWrites(decls[u])
                      /\ system[u].archetypes.tag = "Some"
                             => rt[u].acc.arch \in system[u].archetypes.bitset

\* A Some (Filtered) unit in a run asked for a component it did not declare,
\* in an archetype of its cached set that holds the component, and was refused.
C11_Witness ==
    \E u \in Built :
        /\ rt[u].pc = "running"
        /\ rt[u].acc.kind = "denied"
        /\ rt[u].acc.key \notin DeclCompReads(decls[u]) \cup DeclCompWrites(decls[u])
        /\ rt[u].view.archetypes.some
        /\ rt[u].acc.arch \in rt[u].view.archetypes.bits
        /\ rt[u].acc.key \in worlds[rt[u].world][rt[u].acc.arch + 1]

C13_EditsOnlyBuffered ==
    /\ [][\A u \in Built :
             (rt[u].pc = "running" \/ rt'[u].pc = "running"
                  \/ log'[u].run_calls # log[u].run_calls)
                 => worlds' = worlds]_vars
    /\ [][\A u \in Built :
             log'[u].drains = log[u].drains
                 => \A id \in DOMAIN system[u].command_buffer :
                        /\ id \in DOMAIN system'[u].command_buffer
                        /\ Len(system'[u].command_buffer[id].edits)
                               >= Len(system[u].command_buffer[id].edits)
                        /\ SubSeq(system'[u].command_buffer[id].edits, 1,
                                  Len(system[u].command_buffer[id].edits))
                               = system[u].command_buffer[id].edits]_vars
    /\ [](\A u \in Built : \A id \in DOMAIN system[u].command_buffer :
             \A i \in 1..Len(system[u].command_buffer[id].edits) :
                 system[u].command_buffer[id].edits[i].world = id)

\* Two runs against the first world each recorded one edit and both have
\* returned; no drain has taken place: the buffer holds the two edits in the
\* order recorded and the world is as it was.
C13_Witness ==
    \E u \in Built :
        /\ rt[u].pc = "idle"
        /\ log[u].run_calls = 2
        /\ log[u].drains = 0
        /\ System_command_buffer_mut(system[u], "id1")
        /\ system[u].command_buffer["id1"].edits =
               << [world |-> "id1", run |-> 1], [world |-> "id1", run |-> 2] >>
        /\ worlds = InitWorlds

\* C14: the builder never reorders. At every point of a chain the builder,
\* and after build the unit, lists the queries in the order of the
\* with_query calls and the resources, each with its Read or Write tag, in the
\* order of the read_resource / write_resource calls, whatever other calls
\* come between them.
C14_DeclarationOrderKept ==
    \A u \in Units :
        /\ phase[u] = "building"
               => /\ builder[u].queries = DeclQueries(decls[u])
                  /\ builder[u].resources = DeclBundle(decls[u])
        /\ phase[u] = "built"
               => /\ system[u].queries = DeclQueries(decls[u])
                  /\ system[u].resources = DeclBundle(decls[u])

\* A unit built from write_resource R2, with_query, read_resource R1: the
\* bundle is Write R2 then Read R1 although a query was declared in between.
C14_Witness ==
    \E u \in Built :
        /\ decls[u] = << Decl("write_resource", "R2"), Decl("with_query", QB),
                         Decl("read_resource", "R1") >>
        /\ system[u].resources =
               << [mode |-> "Write", ty |-> "R2"], [mode |-> "Read", ty |-> "R1"] >>
        /\ system[u].queries = << QB >>

\* The argument of the last call of a kind in a chain, None if there is none.
LastArg(ds, op) ==
    IF HasDecl(ds, op)
    THEN ds[CHOOSE i \in 1..Len(ds) :
                /\ ds[i].op = op
                /\ \A j \in (i + 1)..Len(ds) : ds[j].op # op].arg
    ELSE None

\* A chain without its hook calls.
NonHook(ds) == SelectSeq(ds, LAMBDA d : d.op \notin {"with_init", "with_dispose"})

\* The hooks a unit has executed when a chain's last hook of a kind was h.
OnlyHook(h) == IF h = None THEN << >> ELSE << h >>

\* C15: with_init and with_dispose are last-write-wins. The builder, and the
\* unit until its first init (dispose), holds the hook of the last with_init
\* (with_dispose) call of the chain, whatever with_dispose (with_init) calls
\* the chain has; once init (dispose) has been called that hook alone has
\* executed; and the queries, resources, permissions and all-archetypes flag
\* are those of the chain with its hook calls left out.
C15_HookLastWriteWins ==
    \A u \in Units :
        LET i == LastArg(decls[u], "with_init")
            d == LastArg(decls[u], "with_dispose")
            plain == Chain(NonHook(decls[u]))
        IN /\ phase[u] = "building"
                  => /\ builder[u].init_fn = i
                     /\ builder[u].dispose_fn = d
                     /\ builder[u] = [plain EXCEPT !.init_fn = i, !.dispose_fn = d]
           /\ phase[u] = "built"
                  => /\ log[u].init_calls = 0 => system[u].init_fn = i
                     /\ log[u].init_calls > 0 => log[u].init_execs = OnlyHook(i)
                     /\ log[u].dispose_calls = 0 => system[u].dispose_fn = d
                     /\ log[u].dispose_calls > 0 => log[u].dispose_execs = OnlyHook(d)
                     /\ system[u].queries = SystemBuilder_build(plain).queries
                     /\ system[u].resources = SystemBuilder_build(plain).resources
                     /\ system[u].access = SystemBuilder_build(plain).access
                     /\ system[u].archetypes = SystemBuilder_build(plain).archetypes

\* A chain with_init h1, with_init h2, with_dispose: after two init calls and
\* a dispose call only h2 and the dispose hook have executed.
C15_Witness ==
    \E u \in Built :
        /\ Len(decls[u]) = 3
        /\ decls[u][1] = Decl("with_init", "h1")
        /\ decls[u][2] = Decl("with_init", "h2")
        /\ decls[u][3].op = "with_dispose"
        /\ log[u].init_calls = 2
        /\ log[u].init_execs = << "h2" >>
        /\ log[u].dispose_execs = << decls[u][3].arg >>

\* C16: a fault of the user logic propagates out of run. The step in which
\* the user logic faults ends the run (the fetched handles are released and
\* no run is in flight), invokes the user logic no further time, counts as no
\* new run, and leaves the unit as it was: the init and dispose hooks are
\* neither executed nor consumed and the command buffers keep their edits.
C16_UserFaultPropagates ==
    [][\A u \in Built :
          log'[u].user_faults # log[u].user_faults
              => /\ rt[u].pc = "running"
                 /\ rt'[u] = Idle
                 /\ store' = release(rt[u].resources, store)
                 /\ log'[u].invocations = log[u].invocations
                 /\ log'[u].run_calls = log[u].run_calls
                 /\ log'[u].init_execs = log[u].init_execs
                 /\ log'[u].dispose_execs = log[u].dispose_execs
                 /\ system'[u] = system[u]]_vars

\* The user logic of a unit with both hooks faulted in the unit's only run:
\* one invocation, no run in flight, every resource free again, both hooks
\* still held by the unit.
C16_Witness ==
    \E u \in Built :
        /\ log[u].user_faults = 1
        /\ log[u].run_calls = 1
        /\ log[u].invocations = 1
        /\ rt[u].pc = "idle"
        /\ store = FreeStore
        /\ system[u].init_fn # None
        /\ system[u].dispose_fn # None

\* C17: prepare(world) on a Some (Filtered) unit leaves in the cache every
\* archetype index that any one of the unit's queries matches in that world;
\* and a run against that world, made while the world still has the
\* archetypes it had at the prepare, is passed a view that holds every
\* archetype any of the unit's queries matches.
C17_PrepareCoversQueries ==
    /\ [][\A u \in Units, w \in Worlds :
             (prepare(u, w) /\ system[u].archetypes.tag = "Some")
                 => \A i \in 1..Len(system[u].queries) :
                        find_archetypes(system[u].queries[i], worlds[w])
                            \subseteq system'[u].archetypes.bitset]_vars
    /\ [](\A u \in Built :
             (/\ rt[u].pc = "running"
              /\ rt[u].view.archetypes.some
              /\ log[u].prepared = rt[u].world
              /\ log[u].prepared_len = Len(worlds[rt[u].world]))
                 => \A i \in 1..Len(rt[u].queries) :
                        find_archetypes(rt[u].queries[i], worlds[rt[u].world])
                            \subseteq rt[u].view.archetypes.bits)

\* A Some unit with two queries runs against the world it was last prepared
\* against, unchanged since; its second query matches an archetype its first
\* does not.
C17_Witness ==
    \E u \in Built :
        /\ rt[u].pc = "running"
        /\ rt[u].view.archetypes.some
        /\ log[u].prepared = rt[u].world
        /\ log[u].prepared_len = Len(worlds[rt[u].world])
        /\ Len(rt[u].queries) = 2
        /\ find_archetypes(rt[u].queries[2], worlds[rt[u].world])
               \ find_archetypes(rt[u].queries[1], worlds[rt[u].world]) # {}

\* C18: what reads() and writes() report is fixed at build: at every point
\* of the unit's life they report what they reported on the unit as built
\* from its chain, and no init, prepare, run or dispose step changes either.
C18_PermissionsFixed ==
    /\ [](\A u \in Built :
             /\ System_reads(system[u]) =
                    System_reads(SystemBuilder_build(Chain(decls[u])))
             /\ System_writes(system[u]) =
                    System_writes(SystemBuilder_build(Chain(decls[u]))))
    /\ [][\A u \in Built :
             /\ System_reads(system'[u]) = System_reads(system[u])
             /\ System_writes(system'[u]) = System_writes(system[u])]_vars

\* A unit that reports component reads and writes has been through init,
\* prepare, runs against both worlds and dispose.
C18_Witness ==
    \E u \in Built :
        /\ System_reads(system[u]).components # {}
        /\ System_writes(system[u]).components # {}
        /\ log[u].init_calls >= 1
        /\ log[u].prepared # None
        /\ log[u].ran = WorldIds
        /\ log[u].dispose_calls >= 1
        /\ rt[u].pc = "idle"

\* C19: the archetype cache is written by prepare alone. A step of init,
\* dispose or a run leaves it as it was, and any step that changes it is a
\* prepare; the view a run is passed on a Some (Filtered) unit holds exactly
\* the cached set as it stands, which is empty when no prepare has been made
\* and otherwise what the latest prepare left, whichever world that prepare
\* and the run were against.
C19_CacheWrittenByPrepareOnly ==
    /\ [][\A u \in Built :
             /\ (\/ init(u) \/ dispose(u) \/ user_record(u) \/ run_return(u)
                  \/ \E w \in Worlds : run_unsafe(u, w))
                    => system'[u].archetypes = system[u].archetypes
             /\ system'[u].archetypes # system[u].archetypes
                    => \E w \in Worlds : prepare(u, w)
             /\ (system[u].archetypes.tag = "Some" /\ \E w \in Worlds : run_unsafe(u, w)
                     /\ rt'[u].pc = "running")
                    => rt'[u].view.archetypes =
                           [some |-> TRUE, bits |-> system[u].archetypes.bitset]]_vars
    /\ [](\A u \in Built :
             /\ (system[u].archetypes.tag = "Some" /\ log[u].prepared = None)
                    => system[u].archetypes.bitset = {}
             /\ (system[u].archetypes.tag = "Some" /\ rt[u].pc = "running")
                    => rt[u].view.archetypes =
                           [some |-> TRUE, bits |-> system[u].archetypes.bitset])

\* A Some unit was last prepared against the first world and, after an init
\* call, runs against the second: its view holds the set that prepare left,
\* which is not the set its queries match in the world of the run.
C19_Witness ==
    \E u \in Built :
        /\ rt[u].pc = "running"
        /\ rt[u].world = "w2"
        /\ log[u].prepared = "w1"
        /\ log[u].init_calls >= 1
        /\ rt[u].view.archetypes.some
        /\ rt[u].view.archetypes.bits # {}
        /\ rt[u].view.archetypes.bits # Matched(rt[u].queries, worlds["w2"])

\* C20: no lifecycle order is enforced and the hooks are independent. A run
\* can be started on an idle unit whatever init and dispose calls were or
\* were not made, and whether it reaches the user logic depends on the
\* resource fetch alone; a dispose step leaves the init hook and what init
\* has executed as they were, an init step the dispose hook and what dispose
\* has executed; and neither step changes the map of command buffers.
C20_NoLifecycleOrder ==
    /\ [](\A u \in Built, w \in Worlds :
             (rt[u].pc = "idle" /\ log[u].run_calls < MaxCalls)
                 => ENABLED run_unsafe(u, w))
    /\ [][\A u \in Built :
             /\ (\E w \in Worlds : run_unsafe(u, w))
                    => (log'[u].invocations = log[u].invocations + 1
                           <=> fetch_unchecked(system[u].resources, store).ok)
             /\ dispose(u)
                    => /\ system'[u].init_fn = system[u].init_fn
                       /\ log'[u].init_execs = log[u].init_execs
                       /\ system'[u].command_buffer = system[u].command_buffer
             /\ init(u)
                    => /\ system'[u].dispose_fn = system[u].dispose_fn
                       /\ log'[u].dispose_execs = log[u].dispose_execs
                       /\ system'[u].command_buffer = system[u].command_buffer]_vars

\* A unit with both hooks was run, then disposed, never initialised, and is
\* in the user logic of a second run: the init hook is still held and the
\* buffer still holds the first run's edit.
C20_Witness ==
    \E u \in Built :
        /\ rt[u].pc = "running"
        /\ log[u].run_calls = 2
        /\ log[u].invocations = 2
        /\ log[u].init_calls = 0
        /\ log[u].dispose_calls >= 1
        /\ log[u].dispose_execs # << >>
        /\ system[u].init_fn # None
        /\ \E id \in DOMAIN system[u].command_buffer :
               /\ system[u].command_buffer[id].edits # << >>
               /\ system[u].command_buffer[id].edits[1].run = 1

====
